---- MODULE Spec2Model ----
(***************************************************************************)
(* StudySync frontend: the onboarding workflow (Topic -> Commitment ->     *)
(* Creating) and the server-sent-event stream that drives the Creating     *)
(* step, as implemented in frontend/src/pages/Onboarding.tsx, together     *)
(* with the routes of App.tsx that mount and unmount the Onboarding view.  *)
(* The Dashboard view (its load on every route id, its lazily loaded full *)
(* schedule), the Quiz view (frontend/src/pages/Dashboard.tsx) and the     *)
(* Session view (frontend/src/pages/Session.tsx) are modelled as           *)
(* specifications of their own over one mounted instance each, and so is   *)
(* the onboarding variant that has an Assessment step.                     *)
(***************************************************************************)
EXTENDS Integers, Sequences, FiniteSets, TLC

(***************************************************************************)
(* Bounds of the model.                                                    *)
(***************************************************************************)
MaxProgress == 2   \* progress events handled per stream
MaxStreams == 2    \* EventSource objects constructed in one behaviour
MaxViews == 1      \* Onboarding view instances mounted in one behaviour
MaxQuestions == 2     \* questions of one quiz, and of one assessment
MaxSessionCalls == 3  \* getSessions requests followed per Dashboard instance
MaxSubmitCalls == 2   \* submitQuiz requests followed per Quiz instance
MaxDownloads == 1     \* downloadICS requests in flight at once
MaxLoads == 2         \* getDashboard requests followed per Dashboard instance
MaxCompleteCalls == 2 \* completeSession requests followed per Session instance

(***************************************************************************)
(* Values.  A topic is a sequence of characters so that trim() is          *)
(* computed; every other string is an atom.                                *)
(***************************************************************************)
Undefined == "<undefined>"

Null == "<null>"

IsWhitespace(c) == c = " "

\* the strings typed into the topic input: empty, blank, plain, padded
Topics == {<<>>, <<" ">>, <<"a">>, <<" ", "a", " ">>}

CommitmentLevels == {"light", "moderate", "intensive"}

ProficiencyLevels == {"beginner", "intermediate", "advanced"}

DateValues == {"", "2026-01-01", "2026-01-02"}

\* what the behaviours enter: two of the three buttons of each level, one
\* start date, and an end date before it or equal to it
PressedProficiencyLevels == {"beginner", "advanced"}

PressedCommitmentLevels == {"light", "moderate"}

StartDateValues == {"", "2026-01-02"}

Phases == {"curriculum", "resources"}

LearningPathIds == {"lp-123", "", Undefined}

ErrorMessages == {"LLM provider unavailable", "", Undefined}

FallbackError == "Failed to create learning path"

ConnectionLostError == "Connection lost. Please try again."

LandingRoute == "/"

OnboardingRoute == "/onboarding"

\* a hand-off to the session route instead of the dashboard route
SessionRoute(id) == "/session/" \o id

DashboardRoute(id) == "/dashboard/" \o id

(***************************************************************************)
(* String.prototype.trim and JavaScript truthiness of a string-or-         *)
(* undefined value.                                                        *)
(***************************************************************************)
RECURSIVE TrimStart(_)
TrimStart(s) ==
    IF s = <<>> THEN s
    ELSE IF IsWhitespace(Head(s)) THEN TrimStart(Tail(s)) ELSE s

RECURSIVE TrimEnd(_)
TrimEnd(s) ==
    IF s = <<>> THEN s
    ELSE IF IsWhitespace(s[Len(s)]) THEN TrimEnd(SubSeq(s, 1, Len(s) - 1)) ELSE s

Trim(s) == TrimEnd(TrimStart(s))

Truthy(v) == v /= "" /\ v /= Undefined

(***************************************************************************)
(* Stream payloads: event.data after JSON.parse.  json = FALSE is a        *)
(* payload on which JSON.parse throws.  The server stamps the progress     *)
(* events of the s-th stream with timestamp s.                             *)
(***************************************************************************)
Payload(j, t, p, m, ts, id) ==
    [json |-> j, type |-> t, phase |-> p, message |-> m, timestamp |-> ts,
     learning_path_id |-> id]

PhaseMessage(p) == IF p = "curriculum" THEN "Building curriculum" ELSE "Finding resources"

MalformedPayloads == {Payload(FALSE, Undefined, Undefined, Undefined, 0, Undefined)}

UnknownPayloads == {Payload(TRUE, "heartbeat", Undefined, Undefined, 0, Undefined)}

ProgressPayloads(s) == {Payload(TRUE, "progress", p, PhaseMessage(p), s, Undefined) : p \in Phases}

CompletePayloads == {Payload(TRUE, "complete", Undefined, Undefined, 0, id) : id \in LearningPathIds}

ErrorPayloads == {Payload(TRUE, "error", Undefined, m, 0, Undefined) : m \in ErrorMessages}

Payloads(s) ==
    MalformedPayloads \cup UnknownPayloads \cup ProgressPayloads(s)
        \cup CompletePayloads \cup ErrorPayloads

(***************************************************************************)
(* State.                                                                  *)
(*   route, viewId     the route displayed by the Router and the number of *)
(*                     the Onboarding instance mounted last                *)
(*   step .. currentPhase   the useState cells of that instance            *)
(*                     (their initial values while none is mounted: an     *)
(*                     unmounted instance has no state)                    *)
(*   streams           the EventSource objects constructed so far, with    *)
(*                     the terminal callbacks (complete, error, transport  *)
(*                     failure) their handlers have run and the            *)
(*                     navigations those handlers have requested           *)
(*   late              whether a message or error task has found its       *)
(*                     EventSource CLOSED and so dispatched nothing        *)
(*   request           the query of the EventSource the displayed instance *)
(*                     is listening to (empty when it has none open)       *)
(*   received          the progress payloads handled for the displayed     *)
(*                     instance since it last constructed an EventSource   *)
(*   dropped           whether onmessage has dropped a payload of the      *)
(*                     attempt the displayed instance is running           *)
(***************************************************************************)
VARIABLES route, viewId, step, topic, commitmentLevel, proficiencyLevel,
          startDate, endDate, loading, error, progressMessages, currentPhase,
          streams, request, received, late, dropped

\* Dashboard: its useState cells, the getDashboard requests it has issued
\* (each with the id it was issued for and how it settled), the getSessions
\* requests in flight per id, and what the view has asked of getSessions so
\* far
VARIABLES dashboard, dashboardLoading, dashboardError, showAllSessions,
          allSessions, loadingSessions, getDashboardCalls,
          getSessionsPending, getSessionsCalls, sessionsLoaded,
          downloadICSPending

\* Quiz: its useState cells, the requests in flight, and what the view has
\* asked of submitQuiz so far
VARIABLES isReviewMode, quiz, answers, quizLoading, submitting, result,
          getQuizPending, submitQuizPending, submitQuizCalls, submitted

\* the message last handed to showToast
VARIABLE toast

\* the Assessment step of the onboarding variant that has one: the questions
\* presented, the answer selected for each question index, and the
\* proficiency questions request in flight
VARIABLES questions, assessmentAnswers, getProficiencyPending

\* Session: its useState cells, the requests in flight, how many
\* completeSession requests the view has issued, and the position of the
\* browser in the history the session page was opened in
VARIABLES session, notes, sessionLoading, getSessionPending,
          completeSessionPending, completeSessionCalls, historyIndex

fields == <<topic, commitmentLevel, proficiencyLevel, startDate, endDate>>

cells == <<step, topic, commitmentLevel, proficiencyLevel, startDate, endDate,
           loading, error, progressMessages, currentPhase>>

onboardingVars == <<route, viewId, step, topic, commitmentLevel, proficiencyLevel,
                    startDate, endDate, loading, error, progressMessages, currentPhase,
                    streams, request, received, late, dropped>>

dashboardVars == <<dashboard, dashboardLoading, dashboardError, showAllSessions,
                   allSessions, loadingSessions, getDashboardCalls,
                   getSessionsPending, getSessionsCalls, sessionsLoaded,
                   downloadICSPending>>

quizVars == <<isReviewMode, quiz, answers, quizLoading, submitting, result,
              getQuizPending, submitQuizPending, submitQuizCalls, submitted>>

assessmentVars == <<questions, assessmentAnswers, getProficiencyPending>>

sessionVars == <<session, notes, sessionLoading, getSessionPending,
                 completeSessionPending, completeSessionCalls, historyIndex>>

\* what the onboarding view without an Assessment step never touches
pages == <<dashboardVars, quizVars, toast, assessmentVars, sessionVars>>

vars == <<onboardingVars, dashboardVars, quizVars, toast, assessmentVars, sessionVars>>

Mounted == route = OnboardingRoute

\* the instance that constructed stream s is the one on screen
Displayed(s) == Mounted /\ streams[s].owner = viewId

IsOpen(s) == streams[s].readyState /= "CLOSED"

OwnStreams == {s \in 1..Len(streams) : streams[s].owner = viewId}

OpenStreamsOf(v) == {s \in 1..Len(streams) : streams[s].owner = v /\ IsOpen(s)}

InitialCells ==
    /\ step = "topic"
    /\ topic = <<>>
    /\ commitmentLevel = "moderate"
    /\ proficiencyLevel = "beginner"
    /\ startDate = ""
    /\ endDate = ""
    /\ loading = FALSE
    /\ error = ""
    /\ progressMessages = <<>>
    /\ currentPhase = ""

\* the state nothing of the stream has touched yet
NoStream ==
    /\ streams = <<>>
    /\ request = <<>>
    /\ received = <<>>
    /\ late = FALSE
    /\ dropped = FALSE

\* the values the :id parameter of the dashboard route takes
DashboardIds == {"lp-123", "lp-456"}

\* the useState initial values of Dashboard, no getSessions asked yet
DashboardCells ==
    /\ dashboard = Null
    /\ dashboardLoading = TRUE
    /\ dashboardError = ""
    /\ showAllSessions = FALSE
    /\ allSessions = <<>>
    /\ loadingSessions = FALSE
    /\ getSessionsPending = [i \in DashboardIds |-> 0]
    /\ getSessionsCalls = 0
    /\ sessionsLoaded = FALSE

\* Dashboard not mounted: nothing requested
DashboardIdle ==
    /\ DashboardCells
    /\ getDashboardCalls = <<>>
    /\ downloadICSPending = 0

\* the keys an answers object of a quiz can have
IndexKey(idx) == "q" \o <<"0", "1", "2", "3", "4">>[idx + 1]

QuestionIds == {Undefined, "x", "q1"}

AnswerKeys == (QuestionIds \ {Undefined}) \cup {IndexKey(i) : i \in 0..(MaxQuestions - 1)}

\* the useState initial values of Quiz, no submitQuiz asked yet
QuizCells ==
    /\ quiz = <<>>
    /\ answers = [k \in AnswerKeys |-> Undefined]
    /\ quizLoading = TRUE
    /\ submitting = FALSE
    /\ result = Null
    /\ submitQuizPending = 0
    /\ submitQuizCalls = 0
    /\ submitted = <<>>

\* Quiz not mounted: nothing requested
QuizIdle == QuizCells /\ isReviewMode = FALSE /\ getQuizPending = FALSE

QuestionIndexes == 0..(MaxQuestions - 1)

\* no questions fetched, no answer given
AssessmentIdle ==
    /\ questions = 0
    /\ assessmentAnswers = [i \in QuestionIndexes |-> Undefined]
    /\ getProficiencyPending = FALSE

\* the useState initial values of Session, no completeSession asked yet
SessionCells ==
    /\ session = <<>>
    /\ notes = ""
    /\ sessionLoading = TRUE
    /\ completeSessionPending = 0
    /\ completeSessionCalls = 0

\* Session not mounted: nothing requested
SessionIdle == SessionCells /\ getSessionPending = FALSE /\ historyIndex = 0

Init ==
    /\ route = LandingRoute
    /\ viewId = 0
    /\ InitialCells
    /\ NoStream
    /\ DashboardIdle
    /\ QuizIdle
    /\ toast = ""
    /\ AssessmentIdle
    /\ SessionIdle

(***************************************************************************)
(* Routing.                                                                *)
(***************************************************************************)
\* Landing: navigate('/onboarding') mounts a fresh Onboarding instance
\* the useState initial values
FreshCells ==
    /\ step' = "topic"
    /\ topic' = <<>>
    /\ commitmentLevel' = "moderate"
    /\ proficiencyLevel' = "beginner"
    /\ startDate' = ""
    /\ endDate' = ""
    /\ loading' = FALSE
    /\ error' = ""
    /\ progressMessages' = <<>>
    /\ currentPhase' = ""
    /\ request' = <<>>
    /\ received' = <<>>
    /\ dropped' = FALSE

GetStarted ==
    /\ route = LandingRoute
    /\ viewId < MaxViews
    /\ route' = OnboardingRoute
    /\ viewId' = viewId + 1
    /\ FreshCells
    /\ UNCHANGED <<streams, late>>
    /\ UNCHANGED pages

\* Onboarding header logo: navigate('/') unmounts the instance; the
\* component registers no cleanup, so its EventSource is left as it is
LogoClick ==
    /\ Mounted
    /\ route' = LandingRoute
    /\ FreshCells
    /\ UNCHANGED <<viewId, streams, late>>
    /\ UNCHANGED pages

\* Dashboard header logo: navigate('/')
DashboardLogoClick ==
    /\ route \notin {LandingRoute, OnboardingRoute}
    /\ route' = LandingRoute
    /\ UNCHANGED <<viewId, cells, streams, request, received, late>>
    /\ UNCHANGED dropped
    /\ UNCHANGED pages

(***************************************************************************)
(* Topic step.                                                             *)
(***************************************************************************)
\* a topic input that stays editable after the Topic step
SetTopicAnyStep(t) ==
    /\ Mounted
    /\ topic' = t
    /\ UNCHANGED <<route, viewId, step, commitmentLevel, proficiencyLevel,
                   startDate, endDate, loading, error, progressMessages,
                   currentPhase, streams, request, received, late>>
    /\ UNCHANGED dropped
    /\ UNCHANGED pages

SetTopic(t) ==
    /\ Mounted /\ step = "topic"
    /\ topic' = t
    /\ UNCHANGED <<route, viewId, step, commitmentLevel, proficiencyLevel,
                   startDate, endDate, loading, error, progressMessages,
                   currentPhase, streams, request, received, late>>
    /\ UNCHANGED dropped
    /\ UNCHANGED pages

\* handleTopicSubmit testing the untrimmed topic
TopicSubmitStepUntrimmed(stp, tpc) == IF tpc = <<>> THEN stp ELSE "commitment"

\* the step handleTopicSubmit leaves the workflow in
TopicSubmitStep(stp, tpc) == IF Trim(tpc) = <<>> THEN stp ELSE "commitment"

HandleTopicSubmit ==
    /\ Mounted /\ step = "topic"
    /\ step' = TopicSubmitStep(step, topic)
    /\ UNCHANGED <<route, viewId, topic, commitmentLevel, proficiencyLevel,
                   startDate, endDate, loading, error, progressMessages,
                   currentPhase, streams, request, received, late>>
    /\ UNCHANGED dropped
    /\ UNCHANGED pages

(***************************************************************************)
(* Commitment step.                                                        *)
(***************************************************************************)
SetProficiencyLevel(v) ==
    /\ Mounted /\ step = "commitment"
    /\ proficiencyLevel' = v
    /\ UNCHANGED <<route, viewId, step, topic, commitmentLevel, startDate,
                   endDate, loading, error, progressMessages, currentPhase,
                   streams, request, received, late>>
    /\ UNCHANGED dropped
    /\ UNCHANGED pages

SetCommitmentLevel(v) ==
    /\ Mounted /\ step = "commitment"
    /\ commitmentLevel' = v
    /\ UNCHANGED <<route, viewId, step, topic, proficiencyLevel, startDate,
                   endDate, loading, error, progressMessages, currentPhase,
                   streams, request, received, late>>
    /\ UNCHANGED dropped
    /\ UNCHANGED pages

SetStartDate(d) ==
    /\ Mounted /\ step = "commitment"
    /\ startDate' = d
    /\ UNCHANGED <<route, viewId, step, topic, commitmentLevel,
                   proficiencyLevel, endDate, loading, error, progressMessages,
                   currentPhase, streams, request, received, late>>
    /\ UNCHANGED dropped
    /\ UNCHANGED pages

SetEndDate(d) ==
    /\ Mounted /\ step = "commitment"
    /\ endDate' = d
    /\ UNCHANGED <<route, viewId, step, topic, commitmentLevel,
                   proficiencyLevel, startDate, loading, error,
                   progressMessages, currentPhase, streams, request, received, late>>
    /\ UNCHANGED dropped
    /\ UNCHANGED pages

\* a Back button that also dismisses the error banner
BackClearingError ==
    /\ Mounted /\ step = "commitment"
    /\ step' = "topic"
    /\ error' = ""
    /\ UNCHANGED <<route, viewId, topic, commitmentLevel, proficiencyLevel,
                   startDate, endDate, loading, progressMessages,
                   currentPhase, streams, request, received, late>>
    /\ UNCHANGED dropped
    /\ UNCHANGED pages

Back ==
    /\ Mounted /\ step = "commitment"
    /\ step' = "topic"
    /\ UNCHANGED <<route, viewId, topic, commitmentLevel, proficiencyLevel,
                   startDate, endDate, loading, error, progressMessages,
                   currentPhase, streams, request, received, late>>
    /\ UNCHANGED dropped
    /\ UNCHANGED pages

\* the two date parameters appended without their if
ParamsAlwaysDates(tpc, cl, pl, sd, ed) ==
    [topic |-> tpc, commitment_level |-> cl, proficiency_level |-> pl,
     start_date |-> sd, end_date |-> ed]

\* new URLSearchParams({...}) followed by the two conditional appends
Params(tpc, cl, pl, sd, ed) ==
    [topic |-> tpc, commitment_level |-> cl, proficiency_level |-> pl,
     start_date |-> IF Truthy(sd) THEN sd ELSE Undefined,
     end_date |-> IF Truthy(ed) THEN ed ELSE Undefined]

\* new EventSource(url), constructed by instance v
NewEventSource(v) ==
    [owner |-> v, readyState |-> "OPEN", terminals |-> 0, navigations |-> 0]

\* handleCreateLearningPath without the two setters that reset the log
HandleCreateKeepingLog ==
    /\ Mounted /\ step = "commitment"
    /\ Len(streams) < MaxStreams
    /\ step' = "creating"
    /\ loading' = TRUE
    /\ error' = ""
    /\ request' = <<Params(topic, commitmentLevel, proficiencyLevel, startDate, endDate)>>
    /\ received' = <<>>
    /\ streams' = Append(streams, NewEventSource(viewId))
    /\ UNCHANGED <<route, viewId, fields, late, progressMessages, currentPhase>>
    /\ dropped' = FALSE
    /\ UNCHANGED pages

\* handleCreateLearningPath behind a button that stays rendered in Creating
HandleCreateFromAnyStep ==
    /\ Mounted /\ step \in {"commitment", "creating"}
    /\ Len(streams) < MaxStreams
    /\ step' = "creating"
    /\ loading' = TRUE
    /\ error' = ""
    /\ progressMessages' = <<>>
    /\ currentPhase' = ""
    /\ request' = <<Params(topic, commitmentLevel, proficiencyLevel, startDate, endDate)>>
    /\ received' = <<>>
    /\ streams' = Append(streams, NewEventSource(viewId))
    /\ UNCHANGED <<route, viewId, fields, late>>
    /\ dropped' = FALSE
    /\ UNCHANGED pages

HandleCreateLearningPath ==
    /\ Mounted /\ step = "commitment"
    /\ Len(streams) < MaxStreams
    /\ step' = "creating"
    /\ loading' = TRUE
    /\ error' = ""
    /\ progressMessages' = <<>>
    /\ currentPhase' = ""
    /\ request' = <<Params(topic, commitmentLevel, proficiencyLevel, startDate, endDate)>>
    /\ received' = <<>>
    /\ streams' = Append(streams, NewEventSource(viewId))
    /\ UNCHANGED <<route, viewId, fields, late>>
    /\ dropped' = FALSE
    /\ UNCHANGED pages

(***************************************************************************)
(* Creating step: the handlers installed on the EventSource.  A setter     *)
(* called for an instance that is no longer mounted changes nothing;       *)
(* navigate() and close() act whether or not the instance is mounted.      *)
(***************************************************************************)
\* a handler that forgets eventSource.close()
CloseOmitted(strs, s) == strs

\* eventSource.close()
Close(strs, s) == [strs EXCEPT ![s].readyState = "CLOSED"]

\* the object appended for a progress payload
ProgressEntry(d) == [message |-> d.message, phase |-> d.phase, timestamp |-> d.timestamp]

\* a setter that puts the new entry first
PrependEntry(prev, entry) == <<entry>> \o prev

\* prev => [...prev, entry]
AppendEntry(prev, entry) == Append(prev, entry)

\* the error branch without its fallback
ErrorTextRaw(d) == d.message

\* data.message || 'Failed to create learning path'
ErrorText(d) == IF Truthy(d.message) THEN d.message ELSE FallbackError

\* data.data?.learning_path_id is truthy
\* a complete branch whose test of the id never passes
NeverHasLearningPathId(d) == FALSE

\* a test for the key alone, whatever its value
HasLearningPathIdKey(d) == d.learning_path_id /= Undefined

HasLearningPathId(d) == Truthy(d.learning_path_id)

\* a progress branch that keeps the phase of the first event
OnProgressFirstPhase(s, d) ==
    /\ IF Displayed(s)
       THEN /\ currentPhase' = IF progressMessages = <<>> THEN d.phase ELSE currentPhase
            /\ progressMessages' = AppendEntry(progressMessages, ProgressEntry(d))
            /\ received' = Append(received, d)
       ELSE UNCHANGED <<currentPhase, progressMessages, received>>
    /\ UNCHANGED <<route, viewId, step, fields, loading, error, streams, request, late>>
    /\ UNCHANGED dropped

\* the progress branch of onmessage
OnProgress(s, d) ==
    /\ IF Displayed(s)
       THEN /\ currentPhase' = d.phase
            /\ progressMessages' = AppendEntry(progressMessages, ProgressEntry(d))
            /\ received' = Append(received, d)
       ELSE UNCHANGED <<currentPhase, progressMessages, received>>
    /\ UNCHANGED <<route, viewId, step, fields, loading, error, streams, request, late>>
    /\ UNCHANGED dropped

OnComplete(s, d) ==
    /\ streams' = [Close(streams, s) EXCEPT
                      ![s].terminals = @ + 1,
                      ![s].navigations = IF HasLearningPathId(d) THEN @ + 1 ELSE @]
    /\ route' = IF HasLearningPathId(d) THEN DashboardRoute(d.learning_path_id) ELSE route
    /\ IF Mounted /\ HasLearningPathId(d)
       THEN FreshCells
       ELSE /\ loading' = IF Displayed(s) THEN FALSE ELSE loading
            /\ request' = IF Displayed(s) THEN <<>> ELSE request
            /\ dropped' = IF Displayed(s) THEN FALSE ELSE dropped
            /\ UNCHANGED <<step, fields, error, progressMessages, currentPhase, received>>
    /\ UNCHANGED <<viewId, late>>

\* a failure path that also resets the date inputs
FailResettingDates(s, text) ==
    /\ streams' = [Close(streams, s) EXCEPT ![s].terminals = @ + 1]
    /\ IF Displayed(s)
       THEN /\ error' = text
            /\ loading' = FALSE
            /\ step' = "commitment"
            /\ request' = <<>>
            /\ startDate' = ""
            /\ endDate' = ""
       ELSE UNCHANGED <<error, loading, step, request, startDate, endDate>>
    /\ UNCHANGED <<route, viewId, topic, commitmentLevel, proficiencyLevel,
                   progressMessages, currentPhase, received, late>>
    /\ dropped' = IF Displayed(s) THEN FALSE ELSE dropped

\* a failure path that empties the log and the phase on the way back
FailClearingLog(s, text) ==
    /\ streams' = [Close(streams, s) EXCEPT ![s].terminals = @ + 1]
    /\ IF Displayed(s)
       THEN /\ error' = text
            /\ loading' = FALSE
            /\ step' = "commitment"
            /\ request' = <<>>
            /\ progressMessages' = <<>>
            /\ currentPhase' = ""
            /\ received' = <<>>
       ELSE UNCHANGED <<error, loading, step, request, progressMessages,
                        currentPhase, received>>
    /\ UNCHANGED <<route, viewId, fields, late>>
    /\ dropped' = IF Displayed(s) THEN FALSE ELSE dropped

\* a failure path that reconnects by itself instead of going back
FailRetrying(s, text) ==
    /\ streams' = IF Displayed(s) /\ Len(streams) < MaxStreams
                  THEN Append([Close(streams, s) EXCEPT ![s].terminals = @ + 1],
                              NewEventSource(viewId))
                  ELSE [Close(streams, s) EXCEPT ![s].terminals = @ + 1]
    /\ IF Displayed(s) /\ Len(streams) >= MaxStreams
       THEN /\ error' = text
            /\ loading' = FALSE
            /\ step' = "commitment"
            /\ request' = <<>>
       ELSE UNCHANGED <<error, loading, step, request>>
    /\ UNCHANGED <<route, viewId, fields, progressMessages, currentPhase, received, late>>
    /\ dropped' = IF Displayed(s) THEN FALSE ELSE dropped

\* a failure path that shows the error without leaving Creating
FailInPlace(s, text) ==
    /\ streams' = [Close(streams, s) EXCEPT ![s].terminals = @ + 1]
    /\ IF Displayed(s)
       THEN /\ error' = text
            /\ loading' = FALSE
            /\ request' = <<>>
       ELSE UNCHANGED <<error, loading, request>>
    /\ UNCHANGED <<route, viewId, step, fields, progressMessages, currentPhase,
                   received, late>>
    /\ dropped' = IF Displayed(s) THEN FALSE ELSE dropped

\* close(), then the three setters shared by the error branch of onmessage
\* and by onerror
Fail(s, text) ==
    /\ streams' = [Close(streams, s) EXCEPT ![s].terminals = @ + 1]
    /\ IF Displayed(s)
       THEN /\ error' = text
            /\ loading' = FALSE
            /\ step' = "commitment"
            /\ request' = <<>>
       ELSE UNCHANGED <<error, loading, step, request>>
    /\ UNCHANGED <<route, viewId, fields, progressMessages, currentPhase, received, late>>
    /\ dropped' = IF Displayed(s) THEN FALSE ELSE dropped

OnErrorEvent(s, d) == Fail(s, ErrorText(d))

\* a catch block that gives the attempt up
DropFailing(s) == Fail(s, FallbackError)

\* the catch block (console.error only), and the fall-through of a payload
\* whose type is none of the three: no setter, no close(), no navigate()
Drop(s) ==
    /\ dropped' = IF Displayed(s) THEN TRUE ELSE dropped
    /\ UNCHANGED <<route, viewId, cells, streams, request, received, late>>

\* eventSource.onmessage
OnMessage(s, d) ==
    /\ s \in 1..Len(streams)
    /\ IsOpen(s)
    /\ (d.type = "progress" /\ Displayed(s)) => Len(received) < MaxProgress
    /\ IF ~d.json THEN Drop(s)
       ELSE IF d.type = "progress" THEN OnProgress(s, d)
       ELSE IF d.type = "complete" THEN OnComplete(s, d)
       ELSE IF d.type = "error" THEN OnErrorEvent(s, d)
       ELSE Drop(s)
    /\ UNCHANGED pages

\* onerror without eventSource.close(): the EventSource stays open and the
\* browser reconnects
OnErrorWithoutClose(s) ==
    /\ s \in 1..Len(streams)
    /\ IsOpen(s)
    /\ streams' = [streams EXCEPT ![s].terminals = @ + 1]
    /\ IF Displayed(s)
       THEN /\ error' = ConnectionLostError
            /\ loading' = FALSE
            /\ step' = "commitment"
            /\ request' = <<>>
       ELSE UNCHANGED <<error, loading, step, request>>
    /\ UNCHANGED <<route, viewId, fields, progressMessages, currentPhase, received, late>>
    /\ dropped' = IF Displayed(s) THEN FALSE ELSE dropped
    /\ UNCHANGED pages

\* eventSource.onerror
OnError(s) ==
    /\ s \in 1..Len(streams)
    /\ IsOpen(s)
    /\ Fail(s, ConnectionLostError)
    /\ UNCHANGED pages

\* a message or error task that finds readyState CLOSED dispatches nothing
LateTask(s) ==
    /\ s \in 1..Len(streams)
    /\ ~IsOpen(s)
    /\ ~late
    /\ late' = TRUE
    /\ UNCHANGED <<route, viewId, cells, streams, request, received>>
    /\ UNCHANGED dropped
    /\ UNCHANGED pages

Next ==
    \/ GetStarted
    \/ LogoClick
    \/ DashboardLogoClick
    \/ \E t \in Topics : SetTopic(t)
    \/ HandleTopicSubmit
    \/ \E v \in PressedProficiencyLevels : SetProficiencyLevel(v)
    \/ \E v \in PressedCommitmentLevels : SetCommitmentLevel(v)
    \/ \E d \in StartDateValues : SetStartDate(d)
    \/ \E d \in DateValues : SetEndDate(d)
    \/ Back
    \/ HandleCreateLearningPath
    \/ \E s \in 1..MaxStreams : \E d \in Payloads(s) : OnMessage(s, d)
    \/ \E s \in 1..MaxStreams : OnError(s)
    \/ \E s \in 1..MaxStreams : LateTask(s)

Spec == Init /\ [][Next]_vars

(***************************************************************************)
(* The same view fed by streams that obey the contract of the creation     *)
(* endpoint: progress events, then one terminal event (a complete that     *)
(* carries the id of the learning path, or an error) or a transport        *)
(* failure, which the stream does deliver in the end.  The two date inputs  *)
(* are left empty: no handler of the stream reads them.                    *)
(***************************************************************************)
ContractPayloads(s) ==
    ProgressPayloads(s)
        \cup {d \in CompletePayloads : Truthy(d.learning_path_id)}
        \cup ErrorPayloads

\* the event that ends stream s: a terminal message or a transport failure
TerminalEvent(s) ==
    \/ \E d \in ContractPayloads(s) : d.type /= "progress" /\ OnMessage(s, d)
    \/ OnError(s)

NextContract ==
    \/ GetStarted
    \/ LogoClick
    \/ DashboardLogoClick
    \/ \E t \in Topics : SetTopic(t)
    \/ HandleTopicSubmit
    \/ \E v \in PressedProficiencyLevels : SetProficiencyLevel(v)
    \/ \E v \in PressedCommitmentLevels : SetCommitmentLevel(v)
    \/ Back
    \/ HandleCreateLearningPath
    \/ \E s \in 1..MaxStreams : \E d \in ContractPayloads(s) : OnMessage(s, d)
    \/ \E s \in 1..MaxStreams : OnError(s)
    \/ \E s \in 1..MaxStreams : LateTask(s)

SpecContract ==
    /\ Init
    /\ [][NextContract]_vars
    /\ \A s \in 1..MaxStreams : WF_vars(TerminalEvent(s))

(***************************************************************************)
(* The onboarding variant with an Assessment step between Topic and        *)
(* Commitment.  Submitting the topic fetches the proficiency questions     *)
(* (assessments.getProficiency); the Assessment step collects one answer   *)
(* per question index and a proficiency level, which starts unset.         *)
(***************************************************************************)
Choices == {"A", "B"}

QuestionsError == "Failed to load assessment questions"

\* every presented question index has an entry in answers
AllAnswered == \A i \in 0..(questions - 1) : assessmentAnswers[i] /= Undefined

InitAssessment ==
    /\ route = OnboardingRoute
    /\ viewId = 1
    /\ step = "topic"
    /\ topic = <<>>
    /\ commitmentLevel = "moderate"
    /\ proficiencyLevel = ""
    /\ startDate = ""
    /\ endDate = ""
    /\ loading = FALSE
    /\ error = ""
    /\ progressMessages = <<>>
    /\ currentPhase = ""
    /\ NoStream
    /\ DashboardIdle
    /\ QuizIdle
    /\ toast = ""
    /\ AssessmentIdle
    /\ SessionIdle

\* what the Assessment step and the fetch before it leave alone
assessmentRest == <<route, viewId, topic, commitmentLevel, startDate, endDate,
                    progressMessages, currentPhase, streams, request, received,
                    late, dropped, dashboardVars, quizVars, toast, sessionVars>>

\* Topic -> Assessment starts with the fetch of the questions for the topic
AssessmentTopicSubmit ==
    /\ Mounted /\ step = "topic" /\ ~getProficiencyPending
    /\ IF Trim(topic) = <<>>
       THEN UNCHANGED <<loading, error, getProficiencyPending>>
       ELSE /\ loading' = TRUE
            /\ error' = ""
            /\ getProficiencyPending' = TRUE
    /\ UNCHANGED <<step, proficiencyLevel, questions, assessmentAnswers, assessmentRest>>

\* the fetch answers with n questions
QuestionsLoaded(n) ==
    /\ Mounted /\ getProficiencyPending
    /\ questions' = n
    /\ assessmentAnswers' = [i \in QuestionIndexes |-> Undefined]
    /\ step' = "assessment"
    /\ loading' = FALSE
    /\ getProficiencyPending' = FALSE
    /\ UNCHANGED <<proficiencyLevel, error, assessmentRest>>

\* the fetch fails: a recoverable error, the step stays Topic
QuestionsFailed ==
    /\ Mounted /\ getProficiencyPending
    /\ error' = QuestionsError
    /\ loading' = FALSE
    /\ getProficiencyPending' = FALSE
    /\ UNCHANGED <<step, proficiencyLevel, questions, assessmentAnswers, assessmentRest>>

\* selecting the choice that is already selected deselects it
ToggleAnswer(i, c) ==
    /\ Mounted /\ step = "assessment"
    /\ i \in 0..(questions - 1)
    /\ assessmentAnswers' =
          [assessmentAnswers EXCEPT ![i] = IF @ = c THEN Undefined ELSE c]
    /\ UNCHANGED <<step, proficiencyLevel, loading, error, questions,
                   getProficiencyPending, assessmentRest>>

\* answers[i] = c, for a first answer and for a changed one
AnswerQuestion(i, c) ==
    /\ Mounted /\ step = "assessment"
    /\ i \in 0..(questions - 1)
    /\ assessmentAnswers' = [assessmentAnswers EXCEPT ![i] = c]
    /\ UNCHANGED <<step, proficiencyLevel, loading, error, questions,
                   getProficiencyPending, assessmentRest>>

\* the proficiency selector of the Assessment step; "" unsets it
ChooseProficiency(v) ==
    /\ Mounted /\ step = "assessment"
    /\ proficiencyLevel' = v
    /\ UNCHANGED <<step, loading, error, assessmentVars, assessmentRest>>

\* Assessment -> Commitment
AssessmentContinue ==
    /\ Mounted /\ step = "assessment"
    /\ AllAnswered
    /\ Truthy(proficiencyLevel)
    /\ step' = "commitment"
    /\ UNCHANGED <<proficiencyLevel, loading, error, assessmentVars, assessmentRest>>

NextAssessment ==
    \/ \E t \in Topics : SetTopic(t)
    \/ AssessmentTopicSubmit
    \/ \E n \in 0..MaxQuestions : QuestionsLoaded(n)
    \/ QuestionsFailed
    \/ \E i \in QuestionIndexes : \E c \in Choices : AnswerQuestion(i, c)
    \/ \E v \in ProficiencyLevels \cup {""} : ChooseProficiency(v)
    \/ AssessmentContinue

SpecAssessment == InitAssessment /\ [][NextAssessment]_vars

(***************************************************************************)
(* One mounted Dashboard: loadDashboard on mount and on every change of    *)
(* the route id, then the Full Schedule button, the getSessions requests   *)
(* it issues and the modal that shows the list.                            *)
(***************************************************************************)
\* response.data of getDashboard(i)
DashboardData(i) == "dashboard of " \o i

DashboardError == "Failed to load dashboard"

ScheduleToast == "Failed to load full schedule"

DownloadToasts == {"Schedule downloaded", "Failed to download schedule"}

\* response.data of getSessions(i)
SessionLists(i) == {<<>>, <<i \o "/s1">>, <<i \o "/s1", i \o "/s2">>}

\* a getDashboard request as issued
GetDashboard(i) == [id |-> i, status |-> "pending"]

InitDashboard ==
    /\ route = DashboardRoute("lp-123")
    /\ viewId = 0
    /\ InitialCells
    /\ NoStream
    /\ DashboardCells
    /\ getDashboardCalls = <<GetDashboard("lp-123")>>
    /\ downloadICSPending = 0
    /\ QuizIdle
    /\ toast = ""
    /\ AssessmentIdle
    /\ SessionIdle

\* the Dashboard instance whose requests are followed is the one displayed
DashboardMounted ==
    /\ getDashboardCalls /= <<>>
    /\ \E i \in DashboardIds : route = DashboardRoute(i)

\* useParams: the id of the current route
DashboardId == CHOOSE i \in DashboardIds : route = DashboardRoute(i)

\* the main branch of the render, the one with the header and the modal
DashboardRendered ==
    /\ DashboardMounted
    /\ ~dashboardLoading
    /\ dashboardError = ""
    /\ dashboard /= Null

notDashboard == <<onboardingVars, quizVars, assessmentVars, sessionVars>>

\* the route changes from one dashboard to another while the Dashboard
\* stays mounted: the cells keep their values and the effect on [id] calls
\* loadDashboard for the new id
RouteIdChange(i) ==
    /\ DashboardMounted
    /\ i /= DashboardId
    /\ Len(getDashboardCalls) < MaxLoads
    /\ route' = DashboardRoute(i)
    /\ getDashboardCalls' = Append(getDashboardCalls, GetDashboard(i))
    /\ UNCHANGED <<viewId, cells, streams, request, received, late, dropped>>
    /\ UNCHANGED <<dashboard, dashboardLoading, dashboardError, showAllSessions,
                   allSessions, loadingSessions, getSessionsPending,
                   getSessionsCalls, sessionsLoaded, downloadICSPending, toast,
                   quizVars, assessmentVars, sessionVars>>

\* loadDashboard, after the await: try and finally
LoadDashboardOk(n) ==
    /\ getDashboardCalls[n].status = "pending"
    /\ getDashboardCalls' = [getDashboardCalls EXCEPT ![n].status = "ok"]
    /\ dashboard' = DashboardData(getDashboardCalls[n].id)
    /\ dashboardLoading' = FALSE
    /\ UNCHANGED <<dashboardError, showAllSessions, allSessions, loadingSessions,
                   getSessionsPending, getSessionsCalls, sessionsLoaded, toast,
                   downloadICSPending, notDashboard>>

\* loadDashboard, after the await: catch and finally
LoadDashboardFail(n) ==
    /\ getDashboardCalls[n].status = "pending"
    /\ getDashboardCalls' = [getDashboardCalls EXCEPT ![n].status = "failed"]
    /\ dashboardError' = DashboardError
    /\ dashboardLoading' = FALSE
    /\ UNCHANGED <<dashboard, showAllSessions, allSessions, loadingSessions,
                   getSessionsPending, getSessionsCalls, sessionsLoaded, toast,
                   downloadICSPending, notDashboard>>

\* handleLoadAllSessions up to its await; the button sits in the header,
\* under the overlay of the modal while the modal is shown
HandleLoadAllSessions ==
    /\ DashboardRendered
    /\ ~showAllSessions
    /\ Len(allSessions) = 0 => getSessionsCalls < MaxSessionCalls
    /\ IF Len(allSessions) > 0
       THEN /\ showAllSessions' = TRUE
            /\ UNCHANGED <<loadingSessions, getSessionsPending, getSessionsCalls>>
       ELSE /\ loadingSessions' = TRUE
            /\ getSessionsPending' = [getSessionsPending EXCEPT ![DashboardId] = @ + 1]
            /\ getSessionsCalls' = getSessionsCalls + 1
            /\ UNCHANGED showAllSessions
    /\ UNCHANGED <<dashboard, dashboardLoading, dashboardError, allSessions,
                   getDashboardCalls, sessionsLoaded, toast, downloadICSPending, notDashboard>>

\* handleLoadAllSessions after the await of getSessions(i): try and finally
GetSessionsOk(i, list) ==
    /\ getSessionsPending[i] > 0
    /\ getSessionsPending' = [getSessionsPending EXCEPT ![i] = @ - 1]
    /\ allSessions' = list
    /\ showAllSessions' = TRUE
    /\ loadingSessions' = FALSE
    /\ sessionsLoaded' = TRUE
    /\ UNCHANGED <<dashboard, dashboardLoading, dashboardError, getDashboardCalls,
                   getSessionsCalls, toast, downloadICSPending, notDashboard>>

\* handleLoadAllSessions after the await of getSessions(i): catch and finally
GetSessionsFail(i) ==
    /\ getSessionsPending[i] > 0
    /\ getSessionsPending' = [getSessionsPending EXCEPT ![i] = @ - 1]
    /\ toast' = ScheduleToast
    /\ loadingSessions' = FALSE
    /\ UNCHANGED <<dashboard, dashboardLoading, dashboardError, showAllSessions,
                   allSessions, getDashboardCalls, getSessionsCalls,
                   sessionsLoaded, downloadICSPending, notDashboard>>

\* the close button of the modal
CloseSchedule ==
    /\ DashboardRendered
    /\ showAllSessions
    /\ showAllSessions' = FALSE
    /\ UNCHANGED <<dashboard, dashboardLoading, dashboardError, allSessions,
                   loadingSessions, getDashboardCalls, getSessionsPending,
                   getSessionsCalls, sessionsLoaded, toast, downloadICSPending, notDashboard>>

\* handleDownloadSchedule up to its await; the Download button sits in the
\* header next to Full Schedule
HandleDownloadSchedule ==
    /\ DashboardRendered
    /\ ~showAllSessions
    /\ downloadICSPending < MaxDownloads
    /\ downloadICSPending' = downloadICSPending + 1
    /\ UNCHANGED <<dashboard, dashboardLoading, dashboardError, showAllSessions,
                   allSessions, loadingSessions, getDashboardCalls,
                   getSessionsPending, getSessionsCalls, sessionsLoaded, toast,
                   notDashboard>>

\* handleDownloadSchedule after the await: the file is saved or the request
\* failed, and a toast says which
DownloadDone(text) ==
    /\ downloadICSPending > 0
    /\ downloadICSPending' = downloadICSPending - 1
    /\ toast' = text
    /\ UNCHANGED <<dashboard, dashboardLoading, dashboardError, showAllSessions,
                   allSessions, loadingSessions, getDashboardCalls,
                   getSessionsPending, getSessionsCalls, sessionsLoaded,
                   notDashboard>>

NextDashboard ==
    \/ \E i \in DashboardIds : RouteIdChange(i)
    \/ \E n \in 1..Len(getDashboardCalls) : LoadDashboardOk(n)
    \/ \E n \in 1..Len(getDashboardCalls) : LoadDashboardFail(n)
    \/ HandleLoadAllSessions
    \/ \E i \in DashboardIds : \E list \in SessionLists(i) : GetSessionsOk(i, list)
    \/ \E i \in DashboardIds : GetSessionsFail(i)
    \/ CloseSchedule
    \/ HandleDownloadSchedule
    \/ \E text \in DownloadToasts : DownloadDone(text)

SpecDashboard == InitDashboard /\ [][NextDashboard]_vars

(***************************************************************************)
(* One mounted Quiz: the load on mount (the quiz, or its results in review *)
(* mode), the radio inputs, and the submit path.  A question is reduced to *)
(* its id, a quiz to its assessment_id and the ids of its questions.       *)
(***************************************************************************)
QuizRoute == "/quiz/m1"

\* the key of a rendered option: an index of an options array, a key of an
\* options object
OptionKeys == {"A", "0", ""}

QuizData(ids) == [assessment_id |-> "a1", questions |-> ids]

Quizzes == {QuizData(ids) : ids \in UNION {[1..n -> QuestionIds] : n \in 0..MaxQuestions}}

QuizResultData == "quiz-result"

RemainingToast(n) ==
    "Please answer all questions. " \o <<"0", "1", "2", "3", "4">>[n + 1] \o " remaining."

\* question.id || `q${idx}`, for the question at position i (idx = i - 1)
QuestionKey(qz, i) ==
    IF Truthy(qz.questions[i]) THEN qz.questions[i] ELSE IndexKey(i - 1)

\* a filter that looks only at the questions that carry an id
UnansweredAmongIdentified(qz, ans) ==
    {i \in 1..Len(qz.questions) :
        Truthy(qz.questions[i]) /\ ~Truthy(ans[QuestionKey(qz, i)])}

\* quiz.questions.filter((q, idx) => !answers[q.id || `q${idx}`])
Unanswered(qz, ans) ==
    {i \in 1..Len(qz.questions) : ~Truthy(ans[QuestionKey(qz, i)])}

InitQuiz ==
    /\ route = QuizRoute
    /\ viewId = 0
    /\ InitialCells
    /\ NoStream
    /\ DashboardIdle
    /\ QuizCells
    /\ isReviewMode \in BOOLEAN
    /\ getQuizPending = TRUE
    /\ toast = ""
    /\ AssessmentIdle
    /\ SessionIdle

\* the form: past the loading, 'Quiz not found' and result branches
QuizFormRendered ==
    /\ route = QuizRoute
    /\ ~quizLoading
    /\ quiz /= <<>>
    /\ result = Null

notQuiz == <<onboardingVars, dashboardVars, assessmentVars, sessionVars>>

\* loadQuiz after the await: try and finally
LoadQuizOk(qz) ==
    /\ getQuizPending /\ ~isReviewMode
    /\ getQuizPending' = FALSE
    /\ quiz' = <<qz>>
    /\ quizLoading' = FALSE
    /\ UNCHANGED <<isReviewMode, answers, submitting, result, submitQuizPending,
                   submitQuizCalls, submitted, toast, notQuiz>>

\* loadQuiz after the await: catch and finally
LoadQuizFail ==
    /\ getQuizPending /\ ~isReviewMode
    /\ getQuizPending' = FALSE
    /\ toast' = "Failed to load quiz"
    /\ quizLoading' = FALSE
    /\ UNCHANGED <<isReviewMode, quiz, answers, submitting, result,
                   submitQuizPending, submitQuizCalls, submitted, notQuiz>>

\* loadQuizResults after the await: try and finally
LoadQuizResultsOk(qz) ==
    /\ getQuizPending /\ isReviewMode
    /\ getQuizPending' = FALSE
    /\ quiz' = <<qz>>
    /\ result' = QuizResultData
    /\ quizLoading' = FALSE
    /\ UNCHANGED <<isReviewMode, answers, submitting, submitQuizPending,
                   submitQuizCalls, submitted, toast, notQuiz>>

\* loadQuizResults after the await: catch and finally
LoadQuizResultsFail ==
    /\ getQuizPending /\ isReviewMode
    /\ getQuizPending' = FALSE
    /\ toast' = "Failed to load quiz results"
    /\ quizLoading' = FALSE
    /\ UNCHANGED <<isReviewMode, quiz, answers, submitting, result,
                   submitQuizPending, submitQuizCalls, submitted, notQuiz>>

\* the onChange of the radio input of option o of the question keyed k
HandleAnswerChange(k, o) ==
    /\ QuizFormRendered
    /\ \E i \in 1..Len(quiz[1].questions) : k = QuestionKey(quiz[1], i)
    /\ answers' = [answers EXCEPT ![k] = o]
    /\ UNCHANGED <<isReviewMode, quiz, quizLoading, submitting, result,
                   getQuizPending, submitQuizPending, submitQuizCalls, submitted,
                   toast, notQuiz>>

\* a Submit button without the disabled attribute
HandleSubmitWhileSubmitting ==
    /\ QuizFormRendered
    /\ Unanswered(quiz[1], answers) = {} => submitQuizCalls < MaxSubmitCalls
    /\ IF Unanswered(quiz[1], answers) /= {}
       THEN /\ toast' = RemainingToast(Cardinality(Unanswered(quiz[1], answers)))
            /\ UNCHANGED <<submitting, submitQuizPending, submitQuizCalls, submitted>>
       ELSE /\ submitting' = TRUE
            /\ submitQuizPending' = submitQuizPending + 1
            /\ submitQuizCalls' = submitQuizCalls + 1
            /\ submitted' = <<answers>>
            /\ UNCHANGED toast
    /\ UNCHANGED <<isReviewMode, quiz, answers, quizLoading, result,
                   getQuizPending, notQuiz>>

\* handleSubmit up to its await; the button is disabled while submitting
HandleSubmit ==
    /\ QuizFormRendered
    /\ ~submitting
    /\ Unanswered(quiz[1], answers) = {} => submitQuizCalls < MaxSubmitCalls
    /\ IF Unanswered(quiz[1], answers) /= {}
       THEN /\ toast' = RemainingToast(Cardinality(Unanswered(quiz[1], answers)))
            /\ UNCHANGED <<submitting, submitQuizPending, submitQuizCalls, submitted>>
       ELSE /\ submitting' = TRUE
            /\ submitQuizPending' = submitQuizPending + 1
            /\ submitQuizCalls' = submitQuizCalls + 1
            /\ submitted' = <<answers>>
            /\ UNCHANGED toast
    /\ UNCHANGED <<isReviewMode, quiz, answers, quizLoading, result,
                   getQuizPending, notQuiz>>

\* handleSubmit after the await: try and finally
SubmitQuizOk ==
    /\ submitQuizPending > 0
    /\ submitQuizPending' = submitQuizPending - 1
    /\ result' = QuizResultData
    /\ submitting' = FALSE
    /\ UNCHANGED <<isReviewMode, quiz, answers, quizLoading, getQuizPending,
                   submitQuizCalls, submitted, toast, notQuiz>>

\* a catch branch that sends the request again
SubmitQuizFailRetrying ==
    /\ submitQuizPending > 0
    /\ submitQuizCalls < MaxSubmitCalls
    /\ submitQuizCalls' = submitQuizCalls + 1
    /\ toast' = "Failed to submit quiz"
    /\ UNCHANGED <<isReviewMode, quiz, answers, quizLoading, result, submitting,
                   getQuizPending, submitQuizPending, submitted, notQuiz>>

\* handleSubmit after the await: catch and finally
SubmitQuizFail ==
    /\ submitQuizPending > 0
    /\ submitQuizPending' = submitQuizPending - 1
    /\ toast' = "Failed to submit quiz"
    /\ submitting' = FALSE
    /\ UNCHANGED <<isReviewMode, quiz, answers, quizLoading, result,
                   getQuizPending, submitQuizCalls, submitted, notQuiz>>

NextQuiz ==
    \/ \E qz \in Quizzes : LoadQuizOk(qz)
    \/ LoadQuizFail
    \/ \E qz \in Quizzes : LoadQuizResultsOk(qz)
    \/ LoadQuizResultsFail
    \/ \E k \in AnswerKeys : \E o \in OptionKeys : HandleAnswerChange(k, o)
    \/ HandleSubmit
    \/ SubmitQuizOk
    \/ SubmitQuizFail

SpecQuiz == InitQuiz /\ [][NextQuiz]_vars

(***************************************************************************)
(* One visit of a Session page, opened from the dashboard: loadSession on  *)
(* mount, the notes textarea, Mark as Complete and the two ways back.  A   *)
(* session is reduced to its completed flag and its stored notes.          *)
(***************************************************************************)
\* the entries of the browser history when the session page is opened
SessionHistory ==
    <<LandingRoute, OnboardingRoute, DashboardRoute("lp-123"), SessionRoute("s1")>>

\* response.data of getSession
SessionData == [completed : BOOLEAN, notes : {Undefined, "", "saved note"}]

\* what the user types into the textarea
NoteTexts == {"", "my note"}

InitSession ==
    /\ route = SessionRoute("s1")
    /\ viewId = 0
    /\ InitialCells
    /\ NoStream
    /\ DashboardIdle
    /\ QuizIdle
    /\ toast = ""
    /\ AssessmentIdle
    /\ SessionCells
    /\ getSessionPending = TRUE
    /\ historyIndex = Len(SessionHistory)

\* the main branch of the render: past the spinner and 'Session not found'
SessionRendered ==
    /\ route = SessionRoute("s1")
    /\ ~sessionLoading
    /\ session /= <<>>

notSession == <<viewId, step, topic, commitmentLevel, proficiencyLevel,
                startDate, endDate, loading, error, progressMessages, currentPhase,
                streams, request, received, late, dropped,
                dashboardVars, quizVars, assessmentVars>>

\* navigate(-1): one entry back in the history, if there is one
GoBack ==
    /\ historyIndex' = IF historyIndex > 1 THEN historyIndex - 1 ELSE historyIndex
    /\ route' = SessionHistory[historyIndex']

\* loadSession after the await: try and finally
LoadSessionOk(d) ==
    /\ getSessionPending
    /\ getSessionPending' = FALSE
    /\ session' = <<d>>
    /\ notes' = IF Truthy(d.notes) THEN d.notes ELSE ""
    /\ sessionLoading' = FALSE
    /\ UNCHANGED <<route, historyIndex, completeSessionPending,
                   completeSessionCalls, toast, notSession>>

\* a catch branch with no finally after it
LoadSessionFailStillLoading ==
    /\ getSessionPending
    /\ getSessionPending' = FALSE
    /\ toast' = "Failed to load session"
    /\ UNCHANGED <<route, historyIndex, session, notes, sessionLoading,
                   completeSessionPending, completeSessionCalls, notSession>>

\* loadSession after the await: catch and finally
LoadSessionFail ==
    /\ getSessionPending
    /\ getSessionPending' = FALSE
    /\ toast' = "Failed to load session"
    /\ sessionLoading' = FALSE
    /\ UNCHANGED <<route, historyIndex, session, notes, completeSessionPending,
                   completeSessionCalls, notSession>>

\* the onChange of the textarea, rendered while the session is not completed
SetNotes(t) ==
    /\ SessionRendered
    /\ ~session[1].completed
    /\ notes' = t
    /\ UNCHANGED <<route, historyIndex, session, sessionLoading, getSessionPending,
                   completeSessionPending, completeSessionCalls, toast, notSession>>

\* handleComplete up to its await; the button is rendered while the session
\* is not completed, and nothing disables it
HandleComplete ==
    /\ SessionRendered
    /\ ~session[1].completed
    /\ completeSessionCalls < MaxCompleteCalls
    /\ completeSessionPending' = completeSessionPending + 1
    /\ completeSessionCalls' = completeSessionCalls + 1
    /\ UNCHANGED <<route, historyIndex, session, notes, sessionLoading,
                   getSessionPending, toast, notSession>>

\* handleComplete after the await: try branch; the toast provider and the
\* navigate function outlive the view
CompleteSessionOk ==
    /\ completeSessionPending > 0
    /\ completeSessionPending' = completeSessionPending - 1
    /\ toast' = "Session marked as complete!"
    /\ GoBack
    /\ UNCHANGED <<session, notes, sessionLoading, getSessionPending,
                   completeSessionCalls, notSession>>

\* handleComplete after the await: catch branch
CompleteSessionFail ==
    /\ completeSessionPending > 0
    /\ completeSessionPending' = completeSessionPending - 1
    /\ toast' = "Failed to mark session as complete"
    /\ UNCHANGED <<route, historyIndex, session, notes, sessionLoading,
                   getSessionPending, completeSessionCalls, notSession>>

\* the Back to Dashboard button
BackToDashboard ==
    /\ SessionRendered
    /\ GoBack
    /\ UNCHANGED <<session, notes, sessionLoading, getSessionPending,
                   completeSessionPending, completeSessionCalls, toast, notSession>>

NextSession ==
    \/ \E d \in SessionData : LoadSessionOk(d)
    \/ LoadSessionFail
    \/ \E t \in NoteTexts : SetNotes(t)
    \/ HandleComplete
    \/ CompleteSessionOk
    \/ CompleteSessionFail
    \/ BackToDashboard

SpecSession == InitSession /\ [][NextSession]_vars

(***************************************************************************)
(* The onboarding workflow with the form left at its defaults, under every *)
(* payload JSON.parse can return for a message, the progress events whose  *)
(* phase is missing or empty included.                                     *)
(***************************************************************************)
PhaselessPayloads(s) ==
    {Payload(TRUE, "progress", p, "Working", s, Undefined) : p \in {Undefined, ""}}

AllPayloads(s) == Payloads(s) \cup PhaselessPayloads(s)

NextPayloads ==
    \/ GetStarted
    \/ LogoClick
    \/ DashboardLogoClick
    \/ \E t \in Topics : SetTopic(t)
    \/ HandleTopicSubmit
    \/ Back
    \/ HandleCreateLearningPath
    \/ \E s \in 1..MaxStreams : \E d \in AllPayloads(s) : OnMessage(s, d)
    \/ \E s \in 1..MaxStreams : OnError(s)
    \/ \E s \in 1..MaxStreams : LateTask(s)

SpecPayloads == Init /\ [][NextPayloads]_vars

(***************************************************************************)
(* The three views that load by id, each mounted by its own route.         *)
(***************************************************************************)
InitViews == InitDashboard \/ InitQuiz \/ InitSession

NextViews == NextDashboard \/ NextQuiz \/ NextSession

SpecViews == InitViews /\ [][NextViews]_vars

(***************************************************************************)
(* Properties.                                                             *)
(***************************************************************************)
\* the same Onboarding instance is on screen before and after the step
SameView == Mounted /\ route' = OnboardingRoute /\ viewId' = viewId

\* the {message, phase, timestamp} entries of a sequence of progress payloads
EntriesOf(ds) ==
    [i \in 1..Len(ds) |->
        [message |-> ds[i].message, phase |-> ds[i].phase, timestamp |-> ds[i].timestamp]]

IsPrefix(a, b) == Len(a) <= Len(b) /\ SubSeq(b, 1, Len(a)) = a

\* C1: a submit in the Topic step moves to Commitment when the trimmed topic
\* is non-empty and changes nothing when it is empty or whitespace-only; the
\* Topic step is never left forward in any other way.
C1_TopicSubmit ==
    [][ /\ HandleTopicSubmit =>
            /\ step' = (IF Trim(topic) /= <<>> THEN "commitment" ELSE "topic")
            /\ UNCHANGED <<route, viewId, fields, loading, error,
                           progressMessages, currentPhase, streams>>
        /\ (SameView /\ step = "topic" /\ step' /= "topic") =>
            /\ Trim(topic) /= <<>>
            /\ step' = "commitment"
      ]_vars

C1_Witness ==
    /\ Mounted
    /\ step = "commitment"
    /\ topic = <<" ", "a", " ">>

\* C2: while an attempt runs, the ProgressLog is exactly the sequence of
\* progress events handled so far, in handling order, and each step leaves
\* the entries already in the log as they were.
C2_LogIsReceived ==
    /\ [](Mounted => progressMessages = EntriesOf(received))
    /\ [][(SameView /\ step = "creating" /\ step' = "creating")
            => IsPrefix(progressMessages, progressMessages')]_vars

C2_Witness ==
    /\ Mounted
    /\ step = "creating"
    /\ Len(progressMessages) = 2
    /\ progressMessages[1].phase = "resources"
    /\ progressMessages[2].phase = "curriculum"

\* C3: each stream sees at most one terminal callback, which closes it; once
\* that has happened the stream's record never changes again (no reopening,
\* no second navigation), the log, phase, error and loading flag of the
\* attempt stay as they are and the step does not return to Commitment a
\* second time; a task that arrives for a closed stream changes nothing.
C3_OneTerminal ==
    /\ [](\A s \in 1..Len(streams) :
            /\ streams[s].terminals <= 1
            /\ streams[s].terminals = 1 <=> ~IsOpen(s))
    /\ [][\A s \in 1..Len(streams) :
            streams[s].terminals >= 1 =>
                /\ streams'[s] = streams[s]
                /\ (SameView /\ Displayed(s) /\ s = Len(streams)
                        /\ Len(streams') = Len(streams)) =>
                      /\ progressMessages' = progressMessages
                      /\ currentPhase' = currentPhase
                      /\ error' = error
                      /\ loading' = loading
                      /\ ~(step = "creating" /\ step' = "commitment")
         ]_vars
    /\ [][late' /= late => UNCHANGED <<route, viewId, cells, streams>>]_vars

C3_Witness ==
    /\ Mounted
    /\ step = "commitment"
    /\ late
    /\ Len(streams) = 1
    /\ streams[1].terminals = 1
    /\ Len(progressMessages) = 1

\* C4: no step taken while the instance is in Creating writes topic,
\* proficiencyLevel, commitmentLevel, startDate or endDate, and when the
\* attempt fails the five fields are the ones the attempt was started with.
C4_FieldsKept ==
    [][ /\ (SameView /\ step = "creating") => fields' = fields
        /\ (SameView /\ step = "creating" /\ step' = "commitment") =>
              request = <<Params(topic', commitmentLevel', proficiencyLevel',
                                 startDate', endDate')>>
      ]_vars

C4_Witness ==
    /\ Mounted
    /\ step = "commitment"
    /\ error = ConnectionLostError
    /\ ~late
    /\ topic = <<" ", "a", " ">>
    /\ proficiencyLevel = "advanced"
    /\ commitmentLevel = "light"
    /\ startDate = "2026-01-02"
    /\ endDate = "2026-01-01"

\* C5: an error event handled for the instance on screen closes the stream,
\* clears loading, returns to Commitment and shows the event's message, or
\* the generic text when the message is empty or missing; after a failed
\* attempt the error shown is never empty.
C5_ErrorEvent ==
    /\ [][\A s \in 1..Len(streams) : \A d \in ErrorPayloads :
            (OnMessage(s, d) /\ Displayed(s)) =>
                /\ step = "creating"
                /\ streams'[s].readyState = "CLOSED"
                /\ loading' = FALSE
                /\ step' = "commitment"
                /\ error' = (IF d.message \in {"", Undefined}
                             THEN "Failed to create learning path"
                             ELSE d.message)
         ]_vars
    /\ []((Mounted /\ step /= "creating" /\ OwnStreams /= {})
            => error \notin {"", Undefined})

C5_Witness ==
    /\ Mounted
    /\ step = "commitment"
    /\ error = "Failed to create learning path"
    /\ loading = FALSE
    /\ OpenStreamsOf(viewId) = {}

\* C6: a transport failure handled for the instance on screen closes the
\* stream, clears loading, shows 'Connection lost. Please try again.' and
\* returns to Commitment, whatever the log holds; the log is left as it is.
C6_TransportFailure ==
    [][\A s \in 1..Len(streams) :
         (OnError(s) /\ Displayed(s)) =>
             /\ step = "creating"
             /\ streams'[s].readyState = "CLOSED"
             /\ loading' = FALSE
             /\ error' = "Connection lost. Please try again."
             /\ step' = "commitment"
             /\ progressMessages' = progressMessages
      ]_vars

C6_Witness ==
    /\ Mounted
    /\ step = "commitment"
    /\ error = "Connection lost. Please try again."
    /\ loading = FALSE
    /\ Len(progressMessages) = 2
    /\ OpenStreamsOf(viewId) = {}

\* C7: a complete event with a learning_path_id, handled for the instance on
\* screen, closes the stream, leaves no loading flag set and navigates once,
\* to /dashboard/<that id>; the log at that moment is the progress events
\* handled before it; no stream ever navigates twice.
C7_CompleteNavigates ==
    /\ [][\A s \in 1..Len(streams) : \A d \in CompletePayloads :
            (OnMessage(s, d) /\ Displayed(s)
                /\ d.learning_path_id \notin {"", Undefined}) =>
                /\ step = "creating"
                /\ progressMessages = EntriesOf(received)
                /\ streams'[s].readyState = "CLOSED"
                /\ streams'[s].navigations = 1
                /\ route' = "/dashboard/" \o d.learning_path_id
                /\ loading' = FALSE
         ]_vars
    /\ [](\A s \in 1..Len(streams) : streams[s].navigations <= 1)

C7_Witness ==
    /\ route = "/dashboard/lp-123"
    /\ Len(streams) = 1
    /\ streams[1].navigations = 1
    /\ ~IsOpen(1)

\* C8: pressing Create in Commitment leaves the log, the phase and the error
\* empty in the same step that opens the stream, and every entry in the log
\* of an attempt in progress was sent on that attempt's own stream.
C8_RetryStartsClean ==
    /\ [][(SameView /\ step = "commitment" /\ step' = "creating") =>
            /\ progressMessages' = <<>>
            /\ currentPhase' = ""
            /\ error' = ""
            /\ Len(streams') = Len(streams) + 1
         ]_vars
    /\ []((Mounted /\ step = "creating") =>
            \A i \in 1..Len(progressMessages) :
                progressMessages[i].timestamp = Len(streams))

C8_Witness ==
    /\ Mounted
    /\ step = "creating"
    /\ Len(streams) = 2
    /\ streams[1].owner = viewId
    /\ streams[1].terminals = 1
    /\ streams[2].owner = viewId
    /\ Len(progressMessages) = 1

\* C9: every open stream belongs to the Onboarding instance on screen: a
\* stream is closed on every path that ends or abandons its attempt,
\* navigating away from Creating included.
C9_NoOrphanStream ==
    \A s \in 1..Len(streams) : IsOpen(s) => Displayed(s)

\* C10: an instance never has two streams open; a stream is constructed only
\* by the instance on screen, in Commitment, with none of its streams open;
\* Creating is left for Commitment only with every stream of the instance
\* closed; the entries of one log all come from one stream.
C10_OneStreamPerView ==
    /\ [](\A v \in 1..viewId : Cardinality(OpenStreamsOf(v)) <= 1)
    /\ [](\A i, j \in 1..Len(progressMessages) :
            progressMessages[i].timestamp = progressMessages[j].timestamp)
    /\ [][Len(streams') > Len(streams) =>
            /\ Mounted
            /\ step = "commitment"
            /\ OpenStreamsOf(viewId) = {}
            /\ streams'[Len(streams')].owner = viewId
         ]_vars
    /\ [][(SameView /\ step = "creating" /\ step' = "commitment") =>
            \A s \in 1..Len(streams') :
                streams'[s].owner = viewId => streams'[s].readyState = "CLOSED"
         ]_vars

C10_Witness ==
    /\ Mounted
    /\ Len(streams) = 2
    /\ streams[1].owner = viewId /\ ~IsOpen(1)
    /\ streams[2].owner = viewId /\ IsOpen(2)
    /\ Len(progressMessages) = 2

\* C11: a payload that is not JSON, or whose type is not recognised, changes
\* neither the step, the log, the phase, the error, the loading flag, the
\* route nor any stream: the stream it arrived on stays open, so whatever
\* could be handled before it can be handled after it.
C11_DroppedPayload ==
    /\ [][\A s \in 1..Len(streams) :
            \A d \in MalformedPayloads \cup UnknownPayloads :
                OnMessage(s, d) =>
                    /\ UNCHANGED <<route, viewId, cells, streams, request, received, late>>
                    /\ streams'[s].readyState = "OPEN"
         ]_vars
    /\ [][(dropped' /\ ~dropped) =>
            UNCHANGED <<route, viewId, cells, streams, request, received, late>>
         ]_vars
    /\ [](dropped =>
            /\ Mounted /\ step = "creating" /\ error = "" /\ loading
            /\ OpenStreamsOf(viewId) /= {})

C11_Witness ==
    /\ Mounted
    /\ step = "creating"
    /\ dropped
    /\ Len(progressMessages) = 2
    /\ OpenStreamsOf(viewId) /= {}

\* the day a non-empty value of a date input stands for
DayNumber(d) == IF d = "2026-01-01" THEN 1 ELSE 2

\* C12: whenever startDate and endDate are both set, endDate is not earlier
\* than startDate, and no request carries an end_date earlier than its
\* start_date.
C12_EndNotBeforeStart ==
    /\ (Truthy(startDate) /\ Truthy(endDate)) =>
            DayNumber(endDate) >= DayNumber(startDate)
    /\ \A i \in 1..Len(request) :
            (Truthy(request[i].start_date) /\ Truthy(request[i].end_date)) =>
                DayNumber(request[i].end_date) >= DayNumber(request[i].start_date)

\* C13: in Commitment and in Creating the trimmed topic is non-empty, and so
\* is the topic parameter of every request.
C13_TopicNonEmpty ==
    /\ [](Mounted /\ step \in {"commitment", "creating"} => Trim(topic) /= <<>>)
    /\ [](\A i \in 1..Len(request) : Trim(request[i].topic) /= <<>>)
    /\ [][(SameView /\ step /= "topic") => topic' = topic]_vars

C13_Witness ==
    /\ Mounted
    /\ step = "creating"
    /\ Len(streams) = 2
    /\ topic = <<" ", "a", " ">>
    /\ request = <<Params(topic, commitmentLevel, proficiencyLevel, startDate, endDate)>>

\* C14: a stream is constructed only by a press of Create, one per press, and
\* an instance that is back in Commitment or Topic has no stream open.
C14_NoAutomaticRetry ==
    /\ [][Len(streams') /= Len(streams) =>
            /\ HandleCreateLearningPath
            /\ Len(streams') = Len(streams) + 1
         ]_vars
    /\ [][HandleCreateLearningPath => Len(streams') = Len(streams) + 1]_vars
    /\ []((Mounted /\ step \in {"topic", "commitment"}) => OpenStreamsOf(viewId) = {})

C14_Witness ==
    /\ Mounted
    /\ step = "commitment"
    /\ error = "LLM provider unavailable"
    /\ Len(streams) = 1
    /\ ~IsOpen(1)
    /\ late

\* C16 (as claimed): in every state where the step is Commitment the log and
\* the phase indicator are empty.
C16_EmptyInCommitment ==
    (Mounted /\ step = "commitment") => (progressMessages = <<>> /\ currentPhase = "")

\* C16 (amended): the return to Commitment after a failure leaves the log and
\* the phase as the failed attempt left them; they are emptied by the next
\* press of Create, and in Commitment they are empty only as long as the
\* instance has made no attempt or the failed attempt received no progress.
C16_LogKeptUntilCreate ==
    /\ [][(SameView /\ step = "creating" /\ step' = "commitment") =>
            /\ progressMessages' = progressMessages
            /\ currentPhase' = currentPhase
         ]_vars
    /\ [][(SameView /\ step' = "creating" /\ Len(streams') > Len(streams)) =>
            /\ progressMessages' = <<>>
            /\ currentPhase' = ""
         ]_vars
    /\ []((Mounted /\ step = "commitment" /\ progressMessages /= <<>>) =>
            /\ OwnStreams /= {}
            /\ error /= ""
            /\ currentPhase = progressMessages[Len(progressMessages)].phase)

C16_Witness ==
    /\ Mounted
    /\ step = "commitment"
    /\ error = "Connection lost. Please try again."
    /\ Len(progressMessages) = 2
    /\ currentPhase = "resources"

\* C17: the request built by a press of Create carries the topic, the
\* commitment level and the proficiency level of that moment, start_date
\* exactly when startDate is non-empty and end_date exactly when endDate is
\* non-empty, each with the field's value; while the attempt runs the request
\* still matches the fields.
C17_RequestIsCurrentState ==
    /\ [][(SameView /\ step = "commitment" /\ step' = "creating") =>
            /\ Len(request') = 1
            /\ request'[1].topic = topic
            /\ request'[1].commitment_level = commitmentLevel
            /\ request'[1].proficiency_level = proficiencyLevel
            /\ request'[1].start_date = (IF startDate = "" THEN Undefined ELSE startDate)
            /\ request'[1].end_date = (IF endDate = "" THEN Undefined ELSE endDate)
         ]_vars
    /\ [](\A i \in 1..Len(request) :
            /\ request[i].topic = topic
            /\ request[i].commitment_level = commitmentLevel
            /\ request[i].proficiency_level = proficiencyLevel
            /\ request[i].start_date /= ""
            /\ request[i].end_date /= ""
            /\ (request[i].start_date = Undefined) <=> (startDate = "")
            /\ (request[i].end_date = Undefined) <=> (endDate = ""))

C17_Witness ==
    /\ Mounted
    /\ step = "creating"
    /\ Len(streams) = 2
    /\ streams[1].owner = viewId
    /\ Len(request) = 1
    /\ request[1].topic = <<"a">>
    /\ request[1].commitment_level = "light"
    /\ request[1].proficiency_level = "advanced"
    /\ request[1].start_date = Undefined
    /\ request[1].end_date = "2026-01-02"

\* C15: fed by streams that obey their contract, every attempt leaves
\* Creating; a complete hands the user off to the dashboard of the id it
\* carries, an error event or a transport failure returns the view to
\* Commitment, and nothing but a terminal event, a transport failure or the
\* user leaving the page ends Creating.
C15_AttemptEnds ==
    /\ (Mounted /\ step = "creating") ~> ~(Mounted /\ step = "creating")
    /\ [][\A s \in 1..Len(streams) :
            \A d \in {c \in CompletePayloads : Truthy(c.learning_path_id)} :
                (Displayed(s) /\ step = "creating" /\ OnMessage(s, d)) =>
                    route' = DashboardRoute(d.learning_path_id)
         ]_vars
    /\ [][\A s \in 1..Len(streams) :
            (/\ Displayed(s)
             /\ step = "creating"
             /\ OnError(s) \/ \E d \in ErrorPayloads : OnMessage(s, d)) =>
                (SameView /\ step' = "commitment")
         ]_vars
    /\ [][(Mounted /\ step = "creating" /\ ~(SameView /\ step' = "creating")) =>
            \/ LogoClick
            \/ \E s \in 1..Len(streams) : streams'[s].terminals > streams[s].terminals
         ]_vars

C15_Witness ==
    /\ route = DashboardRoute("lp-123")
    /\ Len(streams) = 2
    /\ streams[1].terminals = 1
    /\ streams[1].navigations = 0
    /\ streams[2].terminals = 1
    /\ streams[2].navigations = 1
    /\ Len(received) = 0

\* C18: in the Assessment step the transition to Commitment is enabled
\* exactly when every presented question index has an answer and a
\* proficiency level is set, it is taken only then, and once every question
\* is answered no answer or changed answer makes a question unanswered again.
C18_ContinueGuard ==
    /\ []((Mounted /\ step = "assessment") =>
            ((ENABLED AssessmentContinue) <=> (AllAnswered /\ Truthy(proficiencyLevel))))
    /\ [][(step = "assessment" /\ step' = "commitment") =>
            (AllAnswered /\ Truthy(proficiencyLevel))
         ]_vars
    /\ [][(step = "assessment" /\ step' = "assessment" /\ AllAnswered) =>
            /\ questions' = questions
            /\ \A i \in 0..(questions - 1) : assessmentAnswers'[i] /= Undefined
         ]_vars

C18_Witness ==
    /\ Mounted
    /\ step = "commitment"
    /\ questions = 2
    /\ assessmentAnswers[0] = "B"
    /\ assessmentAnswers[1] = "A"
    /\ proficiencyLevel = "advanced"

\* C19: getSessions is requested only by a press of Full Schedule, and once
\* a getSessions request has succeeded no further request is issued: every
\* later press shows the modal at once, whatever list was loaded.
C19_SessionsCached ==
    /\ [][getSessionsCalls' /= getSessionsCalls => HandleLoadAllSessions]_vars
    /\ [][sessionsLoaded => getSessionsCalls' = getSessionsCalls]_vars
    /\ [][(sessionsLoaded /\ HandleLoadAllSessions) => showAllSessions']_vars

\* the key under which the answer of question i of the loaded quiz is kept:
\* its id, or q<index> when it has none
KeyOf(i) ==
    IF quiz[1].questions[i] \in {Undefined, ""}
    THEN "q" \o <<"0", "1", "2", "3", "4">>[i]
    ELSE quiz[1].questions[i]

\* C20: a press of Submit while some question of the loaded quiz has no
\* answer issues no submitQuiz request and leaves answers, result and
\* submitting as they were; a submitQuiz request is issued only when every
\* question has an answer under its key, and it carries those answers.
C20_SubmitBlocked ==
    /\ [][(/\ HandleSubmit
           /\ \E i \in 1..Len(quiz[1].questions) : answers[KeyOf(i)] = Undefined) =>
            /\ submitQuizCalls' = submitQuizCalls
            /\ submitQuizPending' = submitQuizPending
            /\ answers' = answers
            /\ result' = result
            /\ submitting' = submitting
         ]_vars
    /\ [][submitQuizCalls' /= submitQuizCalls =>
            /\ quiz /= <<>>
            /\ \A i \in 1..Len(quiz[1].questions) : Truthy(answers[KeyOf(i)])
            /\ submitQuizCalls' = submitQuizCalls + 1
            /\ submitted' = <<answers>>
         ]_vars
    /\ [](submitQuizCalls > 0 =>
            \A i \in 1..Len(quiz[1].questions) : Truthy(submitted[1][KeyOf(i)]))

C20_Witness ==
    /\ quiz /= <<>>
    /\ quiz[1].questions = <<Undefined, "x">>
    /\ answers["q0"] = Undefined
    /\ answers["x"] = "A"
    /\ toast = "Please answer all questions. 1 remaining."
    /\ submitQuizCalls = 0
    /\ result = Null

(***************************************************************************)
(* C21: a failed submit leaves the view where it was and allows a manual   *)
(* retry.  When submitQuiz fails, result stays empty, the selected answers *)
(* are unchanged, submitting returns to false and the form with its        *)
(* enabled Submit button is what is rendered; when completeSession fails,  *)
(* the route and the notes are unchanged and a rendered session page stays *)
(* rendered.  Neither failure issues a request.                            *)
(***************************************************************************)
C21_FailedSubmit ==
    [][/\ SubmitQuizFail =>
            /\ result' = Null
            /\ answers' = answers
            /\ submitting' = FALSE
            /\ QuizFormRendered'
            /\ submitQuizPending' = submitQuizPending - 1
            /\ submitQuizCalls' = submitQuizCalls
       /\ CompleteSessionFail =>
            /\ route' = route
            /\ historyIndex' = historyIndex
            /\ notes' = notes
            /\ SessionRendered => SessionRendered'
            /\ completeSessionPending' = completeSessionPending - 1
            /\ completeSessionCalls' = completeSessionCalls]_vars

\* a submit of a quiz with a selected answer has failed, and the form is
\* back with Submit enabled
C21_Witness ==
    /\ toast = "Failed to submit quiz"
    /\ submitQuizCalls = 1
    /\ QuizFormRendered
    /\ ~submitting
    /\ \E k \in AnswerKeys : Truthy(answers[k])

CreatingWithoutStream ==
    /\ Mounted
    /\ step = "creating"
    /\ ~loading
    /\ error = ""
    /\ OpenStreamsOf(viewId) = {}

EndOfAnotherStream ==
    \E s \in 1..Len(streams) :
        /\ streams[s].owner /= viewId
        /\ IsOpen(s)
        /\ streams'[s].readyState = "CLOSED"

C24_LoadingIsOpenStream ==
    Mounted =>
        /\ loading <=> OpenStreamsOf(viewId) /= {}
        /\ OpenStreamsOf(viewId) /= {} => step = "creating"
        /\ step = "creating" => error = ""

\* a second attempt in progress: the failed stream is closed, its error has
\* been cleared, and the stream of the retry is open
C24_Witness ==
    /\ Mounted
    /\ Len(streams) = 2
    /\ OpenStreamsOf(viewId) = {2}
    /\ streams[1].owner = viewId
    /\ loading
    /\ error = ""

(***************************************************************************)
(* C25, as claimed: the phase indicator is empty exactly when the log is   *)
(* empty, and otherwise equals the phase of the last log entry.            *)
(***************************************************************************)
C25_PhaseEmptyIffLogEmpty ==
    Mounted =>
        /\ ~Truthy(currentPhase) <=> progressMessages = <<>>
        /\ progressMessages /= <<>> =>
                currentPhase = progressMessages[Len(progressMessages)].phase

(***************************************************************************)
(* C25, amended: the phase indicator is the empty string when the log is   *)
(* empty, and otherwise is the phase of the last log entry, whatever that  *)
(* is: after a progress event without a phase the indicator is empty       *)
(* although the log is not.                                                *)
(***************************************************************************)
C25_PhaseIsLastEntry ==
    Mounted =>
        IF progressMessages = <<>>
        THEN currentPhase = ""
        ELSE currentPhase = progressMessages[Len(progressMessages)].phase

\* a log of two entries, the last one without a phase
C25_Witness ==
    /\ Mounted
    /\ Len(progressMessages) = 2
    /\ progressMessages[1].phase = "curriculum"
    /\ progressMessages[2].phase = Undefined
    /\ currentPhase = Undefined

(***************************************************************************)
(* C26: Back in Commitment sets the step to Topic and changes nothing      *)
(* else: the five fields, the error, the log, the phase, the loading flag, *)
(* the route and every stream stay as they were.  Within one view,         *)
(* Creating is entered only from Commitment, and Topic is entered only by  *)
(* a step from Commitment that changes nothing but the step.               *)
(***************************************************************************)
C26_BackChangesStepOnly ==
    /\ [][Back =>
            /\ step = "commitment"
            /\ step' = "topic"
            /\ UNCHANGED <<fields, error, progressMessages, currentPhase,
                           loading, streams, route, viewId>>
         ]_vars
    /\ [][(SameView /\ step' = "creating" /\ step /= "creating") =>
            step = "commitment"
         ]_vars
    /\ [][(SameView /\ step' = "topic" /\ step /= "topic") =>
            /\ step = "commitment"
            /\ UNCHANGED <<fields, error, progressMessages, currentPhase,
                           loading, streams>>
         ]_vars

\* back in Topic after a failed attempt, with its error and its log
C26_Witness ==
    /\ Mounted
    /\ step = "topic"
    /\ error = ConnectionLostError
    /\ Len(progressMessages) = 1
    /\ Len(streams) = 1

(***************************************************************************)
(* C27: the route becomes /dashboard/{id} only in a step in which a stream *)
(* of the displayed view, in Creating, ends; and an event of a stream      *)
(* whose view is no longer displayed leaves the route as it is.            *)
(***************************************************************************)
C27_NavigationOnlyFromDisplayedView ==
    /\ [][(route' /= route /\ \E id \in LearningPathIds : route' = DashboardRoute(id)) =>
            /\ step = "creating"
            /\ \E s \in 1..Len(streams) :
                    Displayed(s) /\ IsOpen(s) /\ streams'[s].readyState = "CLOSED"
         ]_vars
    /\ [][\A s \in 1..Len(streams) : \A d \in Payloads(s) :
            (OnMessage(s, d) /\ ~Displayed(s)) => route' = route
         ]_vars

(***************************************************************************)
(* C28: one visit of a session page issues at most one completeSession     *)
(* request, a completion navigates back only from the session page (so at  *)
(* most once), and a session loaded as completed is never the subject of a *)
(* completeSession request.                                                *)
(***************************************************************************)
C28_CompleteOnce ==
    /\ [](completeSessionCalls <= 1)
    /\ []((session /= <<>> /\ session[1].completed) => completeSessionCalls = 0)
    /\ [][CompleteSessionOk => route = SessionRoute("s1")]_vars

(***************************************************************************)
(* C29: one visit of a quiz page has at most one submitQuiz request in     *)
(* flight, and it is in flight exactly while submitting is set; a request  *)
(* is issued only while no result is held; in review mode no request is    *)
(* issued at all, because the answer form is never rendered: a successful  *)
(* review load sets quiz and result in one step, and a failed one leaves   *)
(* the page on 'Quiz not found'.                                           *)
(***************************************************************************)
C29_OneSubmitInFlight ==
    /\ [](route = QuizRoute =>
            /\ submitQuizPending <= 1
            /\ submitting <=> submitQuizPending = 1
            /\ isReviewMode =>
                    /\ submitQuizCalls = 0
                    /\ ~QuizFormRendered
                    /\ ~ENABLED HandleSubmit
                    /\ quiz /= <<>> <=> result /= Null
                    /\ toast = "Failed to load quiz results" =>
                            ~quizLoading /\ quiz = <<>>)
    /\ [][submitQuizCalls' /= submitQuizCalls =>
            /\ result = Null
            /\ submitQuizPending = 0
            /\ submitQuizCalls' = submitQuizCalls + 1
         ]_vars
    /\ [][result /= Null => UNCHANGED <<result, submitQuizCalls, submitQuizPending>>]_vars

\* a second request, issued after the first one failed, is in flight
C29_Witness ==
    /\ route = QuizRoute
    /\ submitQuizCalls = 2
    /\ submitQuizPending = 1
    /\ submitting
    /\ toast = "Failed to submit quiz"

(***************************************************************************)
(* C30: after the route id of a mounted Dashboard has changed, once every  *)
(* getDashboard request has settled the view shows the outcome of the      *)
(* request for the current id: its data if that request succeeded, and an  *)
(* error only if it failed; and a full session list on display was fetched *)
(* for the current id.                                                     *)
(***************************************************************************)
C30_ShowsLoadOfCurrentId ==
    /\ []((/\ DashboardMounted
           /\ \A n \in 1..Len(getDashboardCalls) :
                  getDashboardCalls[n].status /= "pending") =>
            /\ getDashboardCalls[Len(getDashboardCalls)].status = "ok" =>
                    /\ DashboardRendered
                    /\ dashboard = DashboardData(DashboardId)
            /\ dashboardError /= "" =>
                    getDashboardCalls[Len(getDashboardCalls)].status = "failed")
    /\ []((DashboardRendered /\ showAllSessions) =>
            allSessions \in SessionLists(DashboardId))
====
